---- MODULE Spec2Model ----
(***************************************************************************)
(* A model of the flet-asp reactive state runtime: Atom (value cell with   *)
(* an equality gate and an ordered listener list), Selector (derived cell  *)
(* with dependency tracking, memoization, update lock and depth counter)   *)
(* and StateManager (the registry of atoms and selectors by key).          *)
(*                                                                         *)
(* Every StateManager call is one action.  A call runs synchronously to    *)
(* completion on the calling thread, so the whole chain set -> listeners   *)
(* -> dependent selectors -> their listeners is computed inside the action *)
(* by operators that thread a "world" record W (the heap the call works    *)
(* on) and stop at the first raised exception (W.err).                     *)
(*                                                                         *)
(* Spec is the registry with synchronous selectors.  SpecAsync adds         *)
(* coroutine compute functions, whose evaluations are tasks that start and  *)
(* resolve between the calls.  SpecBind adds bind, bind_two_way, unbind and *)
(* the change event of the bound control.  SpecConc has callers on several  *)
(* threads: an evaluation holds the selector's lock while other threads     *)
(* make their calls.  SpecDyn has a compute function whose reads depend on  *)
(* the values it reads.  SpecReent has a listener that writes an atom while *)
(* it is notified and a compute function that raises for some values.       *)
(* SpecMemo makes every call also on the same registry built with the       *)
(* selectors of package fasp, which have no memoization.                    *)
(***************************************************************************)
EXTENDS Integers, Sequences, FiniteSets, TLC

VARIABLES
    atoms,      \* StateManager._atoms: key -> [value, listeners]
    selectors,  \* StateManager._selectors: key -> selector object id
    sel,        \* the Selector objects, by object id
    last,       \* the call made last: operation, arguments, outcome
    calls,      \* listener invocations made during the last call, in order
    evals,      \* select_fn invocations made during the last call, in order
    ncalls,     \* the number of calls made so far
    cleared,    \* history: the last clear() and whether anything was
                \* registered since
    sink,       \* the UI control behind the Ref: its bound property and the
                \* atom its on_change handler writes to
    tasks,      \* the asynchronous evaluations in flight, in scheduling order
    fasp        \* the same registry with the selectors of package fasp,
                \* which have no memoization: atoms, selectors, sel, and
                \* the calls and evals of its last call

vars == <<atoms, selectors, sel, last, calls, evals, ncalls, cleared, sink,
          tasks, fasp>>

----------------------------------------------------------------------------
(* Bounds *)

\* Selector objects alive at the same time.
MaxSel == 2

\* Calls made on the StateManager in one run.
MaxCalls == 4

(* Program constants *)

\* selector.py:181  "if self._update_depth > 100"
MaxUpdateDepth == 100

----------------------------------------------------------------------------
(* Values.  A Python value is a pair <<type, payload>>. *)

None == <<"none", 0>>
I1 == <<"int", 1>>
L1 == <<"list", 1>>     \* the list [1]
T1 == <<"tuple", 1>>    \* the tuple (1,)

Values == {None, I1, L1, T1}

\* Keys of the registry (atoms and selectors share one namespace).
Keys == {"a", "b", "s"}

\* The arguments the calls are made with.
Defaults == {None, L1}
SetValues(key) == IF key = "a" THEN Values ELSE {I1}
ResetValues == {None}
ListenKeys == {"a", "s"}

\* ujson.dumps(v, sort_keys=True): lists and tuples serialise alike.
dumps(v) ==
    CASE v[1] = "none"  -> "null"
      [] v[1] = "int"   -> ToString(v[2])
      [] v[1] = "list"  -> "[" \o ToString(v[2]) \o "]"
      [] v[1] = "tuple" -> "[" \o ToString(v[2]) \o "]"

\* utils.deep_equal: equality of the JSON serialisations.
deep_equal(a, b) == dumps(a) = dumps(b)

----------------------------------------------------------------------------
(* Finite maps (Python dicts) *)

EmptyMap == [k \in {} |-> None]

Put(m, k, v) == [x \in (DOMAIN m) \cup {k} |-> IF x = k THEN v ELSE m[x]]

Remove(m, k) == [x \in (DOMAIN m) \ {k} |-> m[x]]

\* The orders in which Python may iterate over a set of keys.
Orders == {<<"a", "b", "s">>, <<"s", "b", "a">>}

\* The iteration order shows only when a set of two or more keys is
\* iterated: the orders to consider for a selector that reads n keys.
OrdersFor(n) == IF n > 1 THEN Orders ELSE {<<"a", "b", "s">>}

\* The keys of S in the iteration order ord.
SeqOf(S, ord) == SelectSeq(ord, LAMBDA k : k \in S)

----------------------------------------------------------------------------
(* Listeners.  A callback is <<kind, id>>:                                 *)
(*   <<"rec", n>>   an external callback that records its argument         *)
(*   <<"raise", n>> an external callback that raises                       *)
(*   <<"dep", sid>> the bound method Selector._on_dependency_change of the *)
(*                  selector object sid                                    *)
(*   <<"bind", n>>  the closure `listener` made by the n-th Atom.bind, which *)
(*                  carries __ref__ = the Ref and writes the control        *)
(*   <<"two", n>>   the closure `listener` made by Atom.bind_two_way, which *)
(*                  carries __control_id__ and writes the control           *)
(*   <<"write", n>> an external callback that writes an atom:               *)
(*                  lambda v: state.set("a", 1)                             *)
(*   <<"fdep", sid>> the bound method _on_dependency_change of the selector *)
(*                  object sid of package fasp                              *)

Recorder == <<"rec", 1>>
Raiser == <<"raise", 2>>
Callbacks == {Recorder, Raiser}

\* The callback that writes, the key it writes and the value it writes.
Writer == <<"write", 3>>
WriterKey == "a"
WriterValue == I1

DepCb(sid) == <<"dep", sid>>
FaspDepCb(sid) == <<"fdep", sid>>

NoErr == "none"

----------------------------------------------------------------------------
(* Compute functions (select_fn) a caller can register.                    *)
(*   copy_a : lambda get: get("a")                                         *)
(*   eq_ab  : lambda get: 1 if get("a") == get("b") else None              *)
(*   read_s : lambda get: get("s")                                         *)
(*   const1 : lambda get: 1                                                *)
(*   pick_b : lambda get: get("b") if get("a") else None                   *)
(*   first_a: lambda get: get("a")[0]                                      *)
(*   list_a : lambda get: 1 if type(get("a")) is list else None            *)
(* and the coroutine function                                              *)
(*   async_a: async def f(get): v = get("a"); r = await io(v); return r    *)
(* whose awaited io(v) returns v or raises.                                *)

Fns == {"copy_a", "eq_ab", "read_s", "const1"}

\* The compute functions whose reads depend on the values read.
DynFns == {"pick_b"}

\* The compute functions that raise for some of the values they read.
PartialFns == {"first_a"}

AsyncFns == {"async_a"}

\* asyncio.iscoroutinefunction(select_fn)
IsAsync(fn) == fn \in AsyncFns

Done == ""

\* The key select_fn asks its getter for next, given the values read so far.
NextRead(fn, vs) ==
    CASE fn = "copy_a" -> IF Len(vs) = 0 THEN "a" ELSE Done
      [] fn = "eq_ab"  -> IF Len(vs) = 0 THEN "a"
                          ELSE IF Len(vs) = 1 THEN "b" ELSE Done
      [] fn = "read_s" -> IF Len(vs) = 0 THEN "s" ELSE Done
      [] fn = "const1" -> Done
      [] fn = "async_a" -> IF Len(vs) = 0 THEN "a" ELSE Done
      [] fn = "pick_b" -> IF Len(vs) = 0 THEN "a"
                          ELSE IF Len(vs) = 1 /\ vs[1] # None THEN "b"
                          ELSE Done
      [] fn = "first_a" -> IF Len(vs) = 0 THEN "a" ELSE Done
      [] fn = "list_a" -> IF Len(vs) = 0 THEN "a" ELSE Done

\* select_fn raises after its reads: None[0] and 1[0] are TypeErrors.
Raises(fn, vs) == fn = "first_a" /\ vs[1] \in {None, I1}

\* The value select_fn returns after its reads.
Result(fn, vs) ==
    CASE fn = "copy_a" -> vs[1]
      [] fn = "eq_ab"  -> IF vs[1] = vs[2] THEN I1 ELSE None
      [] fn = "read_s" -> vs[1]
      [] fn = "const1" -> I1
      [] fn = "async_a" -> vs[1]
      [] fn = "pick_b" -> IF Len(vs) = 2 THEN vs[2] ELSE None
      [] fn = "first_a" -> I1
      [] fn = "list_a" -> IF vs[1][1] = "list" THEN I1 ELSE None

----------------------------------------------------------------------------
(* The world a call works on *)

SIds == 1..MaxSel

\* A Selector object.  Two fields are history.  applied is the number of
\* the call that triggered the asynchronous evaluation whose result was
\* stored last.  missed is "yes" from a notification that found the lock
\* taken until a notification takes the lock, "serving" while that one runs,
\* and "no" otherwise.
FreeSel == [fn |-> "free", value |-> None, listeners |-> <<>>,
            deps |-> {}, cached |-> EmptyMap, depth |-> 0, locked |-> FALSE,
            applied |-> 0, missed |-> "no"]

World(ord) == [atoms |-> atoms, selectors |-> selectors, sel |-> sel,
               ord |-> ord, calls |-> <<>>, evals |-> <<>>, err |-> NoErr,
               ret |-> None, sink |-> sink, tasks |-> tasks,
               now |-> ncalls + 1, split |-> FALSE, peak |-> 0,
               skips |-> 0, fasp |-> fasp]

\* The world of a call made by one of several threads: other threads run
\* between the steps of the call (split), so an evaluation that has taken
\* the lock and the snapshot stays in progress until its thread goes on.
Threaded(W) == [W EXCEPT !.split = TRUE]

\* An asynchronous evaluation of selector object sid: the task made by
\* _schedule_async_with_tracking (kind "init") or by _schedule_async (kind
\* "re").  It is "new" until its coroutine has run up to the await and
\* "waiting" from then on; keys and vals are what the coroutine has read,
\* by is the number of the call that scheduled it.
Task(W, sid, kind) ==
    [sid |-> sid, kind |-> kind, phase |-> "new", keys |-> <<>>,
     vals |-> <<>>, by |-> W.now]

schedule(W, sid, kind) == [W EXCEPT !.tasks = Append(@, Task(W, sid, kind))]

Invocation(kind, key, sid, cb, v) ==
    [cell |-> kind, key |-> key, sid |-> sid, cb |-> cb, val |-> v,
     wrote |-> FALSE]

\* History of an invocation: the callback is one that writes and its write
\* changes the atom.
Effective(W, cb) ==
    /\ cb[1] = "write"
    /\ WriterKey \notin DOMAIN W.selectors
    /\ \/ WriterKey \notin DOMAIN W.atoms
       \/ ~deep_equal(W.atoms[WriterKey].value, WriterValue)

----------------------------------------------------------------------------
(* StateManager.atom *)

\* A plausible slip: creating the atom before the selector check.
atom_create_first(W, key, default) ==
    LET W1 == IF key \notin DOMAIN W.atoms
              THEN [W EXCEPT !.atoms = Put(@, key,
                        [value |-> default, listeners |-> <<>>])]
              ELSE W
    IN IF key \in DOMAIN W.selectors
       THEN [W1 EXCEPT !.err = "ValueError"]
       ELSE W1

\* state.py: atom(key, default): raises for a selector key, creates the
\* atom when the key is new, returns the atom under the key.
atom(W, key, default) ==
    IF key \in DOMAIN W.selectors
    THEN [W EXCEPT !.err = "ValueError"]
    ELSE IF key \notin DOMAIN W.atoms
         THEN [W EXCEPT !.atoms = Put(@, key,
                   [value |-> default, listeners |-> <<>>])]
         ELSE W

----------------------------------------------------------------------------
(* Running select_fn with a getter.  Both getters of the selector resolve  *)
(* the key with resolve_atom = StateManager.atom and read .value.          *)
(* The result is [w, keys, vals]: the world after the reads, the keys      *)
(* asked for and the values returned.                                      *)

RECURSIVE run_select_fn(_, _, _, _)
run_select_fn(W, fn, ks, vs) ==
    LET k == NextRead(fn, vs)
    IN IF k = Done
       THEN [w |-> IF Raises(fn, vs) THEN [W EXCEPT !.err = "TypeError"] ELSE W,
             keys |-> ks, vals |-> vs]
       ELSE LET W1 == atom(W, k, None)
            IN IF W1.err # NoErr
               THEN [w |-> W1, keys |-> Append(ks, k), vals |-> vs]
               ELSE run_select_fn(W1, fn, Append(ks, k),
                                  Append(vs, W1.atoms[k].value))

\* cached_deps written by the tracking getter: the value of the last read
\* of each key.
RECURSIVE snapshot(_, _, _)
snapshot(ks, vs, m) ==
    IF ks = <<>> \/ vs = <<>> THEN m
    ELSE snapshot(Tail(ks), Tail(vs), Put(m, Head(ks), Head(vs)))

----------------------------------------------------------------------------
(* Atom._notify_listeners, Selector._set_value, _on_dependency_change *)

RECURSIVE notify_listeners(_, _, _, _, _)
RECURSIVE on_dependency_change(_, _)
RECURSIVE set_atom_value(_, _, _)

\* The memoization loop: reads every dependency through resolve_atom and
\* compares it with the cached snapshot.
RECURSIVE memo_check(_, _, _, _, _)
memo_check(W, sid, ks, new, changed) ==
    IF ks = <<>>
    THEN [w |-> W, new |-> new, changed |-> changed]
    ELSE LET k == Head(ks)
             W1 == atom(W, k, None)
         IN IF W1.err # NoErr
            THEN [w |-> W1, new |-> new, changed |-> changed]
            ELSE LET v == W1.atoms[k].value
                     c == W1.sel[sid].cached
                 IN memo_check(W1, sid, Tail(ks), Put(new, k, v),
                        changed \/ k \notin DOMAIN c
                                \/ ~deep_equal(v, c[k]))

\* A plausible slip: the lock given up while the listeners are notified.
set_value_unlocked(W, sid, v) ==
    IF ~deep_equal(v, W.sel[sid].value)
    THEN LET W1 == [W EXCEPT !.sel[sid].value = v, !.sel[sid].locked = FALSE]
             W2 == notify_listeners(W1, "sel", "", sid, W1.sel[sid].listeners)
         IN [W2 EXCEPT !.sel[sid].locked = TRUE]
    ELSE W

\* A plausible slip: every result is stored and notified.
set_value_ungated(W, sid, v) ==
    LET W1 == [W EXCEPT !.sel[sid].value = v]
    IN notify_listeners(W1, "sel", "", sid, W1.sel[sid].listeners)

\* Selector._set_value: the equality gate, then the selector's listeners.
set_value(W, sid, v) ==
    IF ~deep_equal(v, W.sel[sid].value)
    THEN LET W1 == [W EXCEPT !.sel[sid].value = v]
         IN notify_listeners(W1, "sel", "", sid, W1.sel[sid].listeners)
    ELSE W

\* The rest of the try block once the snapshot is written: select_fn runs
\* with the plain getter and its result is scheduled or stored.
evaluate(W, sid) ==
    LET W3 == [W EXCEPT !.evals = Append(@, sid)]
        R == run_select_fn(W3, W3.sel[sid].fn, <<>>, <<>>)
    IN IF IsAsync(W3.sel[sid].fn)
       THEN schedule(W3, sid, "re")
       ELSE IF R.w.err # NoErr THEN R.w
       ELSE set_value(R.w, sid, Result(R.w.sel[sid].fn, R.vals))

\* The calling thread stops between the snapshot and the evaluation, with
\* the lock held: the evaluation in progress is kept as a task of kind
\* "sync".
park(W, sid) ==
    [W EXCEPT !.tasks = Append(@, [Task(W, sid, "sync") EXCEPT
                                       !.phase = "locked"])]

\* An evaluation of selector object sid is in progress on some thread.
Parked(W, sid) ==
    \E n \in 1..Len(W.tasks) :
        W.tasks[n].sid = sid /\ W.tasks[n].kind = "sync"

\* The body of the try block of _on_dependency_change.
on_dependency_change_body(W, sid) ==
    IF W.sel[sid].depth > MaxUpdateDepth
    THEN [W EXCEPT !.err = "RuntimeError"]
    ELSE LET M == memo_check(W, sid, SeqOf(W.sel[sid].deps, W.ord), EmptyMap, FALSE)
         IN IF M.w.err # NoErr THEN M.w
            ELSE IF ~M.changed THEN M.w
            ELSE LET W2 == [M.w EXCEPT !.sel[sid].cached = M.new]
                 IN IF W2.split THEN park(W2, sid) ELSE evaluate(W2, sid)

\* The finally clause of _on_dependency_change.
release(W, sid) ==
    [W EXCEPT !.sel[sid].depth = @ - 1,
              !.sel[sid].locked = FALSE,
              !.sel[sid].missed = IF @ = "serving" THEN "no" ELSE @]

\* The try statement is left in world W2: the finally clause runs, unless
\* the thread stopped inside the block.
leave(W2, sid) == IF Parked(W2, sid) THEN W2 ELSE release(W2, sid)

\* History of a call: one more notification returned at the lock gate.
skipped(W) == [W EXCEPT !.skips = @ + 1]

\* History of a call: the largest value _update_depth has had.
deepest(W, sid) ==
    [W EXCEPT !.peak = IF W.sel[sid].depth > @ THEN W.sel[sid].depth ELSE @]

\* A plausible slip: a lock the holding thread can take again.
on_dependency_change_reentrant(W, sid) ==
    LET W1 == deepest([W EXCEPT !.sel[sid].locked = TRUE,
                                !.sel[sid].depth = @ + 1], sid)
        W2 == on_dependency_change_body(W1, sid)
    IN [W2 EXCEPT !.sel[sid].depth = @ - 1,
                  !.sel[sid].locked = (W2.sel[sid].depth > 1)]

\* fasp/selector.py: the last statement of _on_dependency_change, which
\* an exception skips.
fasp_clear_flag(W2, sid) ==
    IF W2.err # NoErr THEN W2 ELSE [W2 EXCEPT !.sel[sid].locked = FALSE]

\* fasp/selector.py: _on_dependency_change: the _is_updating flag (kept in
\* the field locked), select_fn with the plain getter, _set_value.
fasp_on_dependency_change(W, sid) ==
    IF W.sel[sid].locked THEN W
    ELSE LET W1 == [W EXCEPT !.sel[sid].locked = TRUE,
                             !.evals = Append(@, sid)]
             R == run_select_fn(W1, W1.sel[sid].fn, <<>>, <<>>)
         IN IF R.w.err # NoErr THEN R.w
            ELSE fasp_clear_flag(
                     set_value(R.w, sid, Result(R.w.sel[sid].fn, R.vals)), sid)

\* A plausible slip: the release written after the body instead of in a
\* finally clause, so that an exception leaves the lock taken.
on_dependency_change_no_finally(W, sid) ==
    IF W.sel[sid].locked
    THEN skipped(W)
    ELSE LET W1 == deepest([W EXCEPT !.sel[sid].locked = TRUE,
                                     !.sel[sid].depth = @ + 1], sid)
             W2 == on_dependency_change_body(W1, sid)
         IN IF Parked(W2, sid) \/ W2.err # NoErr THEN W2 ELSE release(W2, sid)

\* selector.py: _on_dependency_change: non-blocking lock, depth counter,
\* the body, and the finally clause that undoes both.
on_dependency_change(W, sid) ==
    IF W.sel[sid].locked
    THEN IF W.split THEN skipped([W EXCEPT !.sel[sid].missed = "yes"])
         ELSE skipped(W)
    ELSE leave(on_dependency_change_body(
                   deepest([W EXCEPT !.sel[sid].locked = TRUE,
                                     !.sel[sid].depth = @ + 1,
                                     !.sel[sid].missed =
                                         IF @ = "yes" THEN "serving" ELSE @],
                           sid), sid), sid)

\* One listener being called with value v.
invoke(W, kind, key, sid, cb, v) ==
    LET W1 == [W EXCEPT !.calls = Append(@,
                   [Invocation(kind, key, sid, cb, v) EXCEPT
                       !.wrote = Effective(W, cb)])]
    IN CASE cb[1] = "rec"   -> W1
         [] cb[1] = "raise" -> [W1 EXCEPT !.err = "ListenerError"]
         [] cb[1] = "dep"   -> on_dependency_change(W1, cb[2])
         [] cb[1] = "bind"  -> [W1 EXCEPT !.sink.value = v]
         [] cb[1] = "two"   -> [W1 EXCEPT !.sink.value = v]
         [] cb[1] = "write" -> set_atom_value(W1, WriterKey, WriterValue)
         [] cb[1] = "fdep"  -> fasp_on_dependency_change(W1, cb[2])

\* atom.py: _notify_listeners: calls every listener with the cell's value,
\* in list order; an exception of a listener leaves the loop.
\* The loop of _notify_listeners once the first callback of ls has
\* returned or raised in world W1.
next_listener(W1, kind, key, sid, ls) ==
    IF W1.err # NoErr THEN W1
    ELSE notify_listeners(W1, kind, key, sid, Tail(ls))

notify_listeners(W, kind, key, sid, ls) ==
    IF ls = <<>> THEN W
    ELSE next_listener(invoke(W, kind, key, sid, Head(ls),
                              IF kind = "atom" THEN W.atoms[key].value
                              ELSE W.sel[sid].value),
                       kind, key, sid, ls)

\* A plausible slip: no equality gate, every write is stored and notified.
atom_set_ungated(W, key, v) ==
    LET W1 == [W EXCEPT !.atoms[key].value = v]
    IN notify_listeners(W1, "atom", key, 0, W1.atoms[key].listeners)

\* atom.py: Atom.set: the equality gate, then the listeners.
atom_set(W, key, v) ==
    IF ~deep_equal(W.atoms[key].value, v)
    THEN LET W1 == [W EXCEPT !.atoms[key].value = v]
         IN notify_listeners(W1, "atom", key, 0, W1.atoms[key].listeners)
    ELSE W

----------------------------------------------------------------------------
(* Atom.listen, Atom.unlisten *)

\* A plausible slip: the new callback is always called, whatever immediate.
cell_listen_always(W, kind, key, sid, cb, immediate) ==
    LET ls == IF kind = "atom" THEN W.atoms[key].listeners
              ELSE W.sel[sid].listeners
        v == IF kind = "atom" THEN W.atoms[key].value ELSE W.sel[sid].value
    IN IF \E i \in 1..Len(ls) : ls[i] = cb
       THEN W
       ELSE LET W1 == IF kind = "atom"
                      THEN [W EXCEPT !.atoms[key].listeners = Append(@, cb)]
                      ELSE [W EXCEPT !.sel[sid].listeners = Append(@, cb)]
            IN invoke(W1, kind, key, sid, cb, v)

\* atom.py: Atom.listen: appends a callback that is not in the list yet and,
\* when immediate, calls it with the current value.
cell_listen(W, kind, key, sid, cb, immediate) ==
    LET ls == IF kind = "atom" THEN W.atoms[key].listeners
              ELSE W.sel[sid].listeners
        v == IF kind = "atom" THEN W.atoms[key].value ELSE W.sel[sid].value
    IN IF \E i \in 1..Len(ls) : ls[i] = cb
       THEN W
       ELSE LET W1 == IF kind = "atom"
                      THEN [W EXCEPT !.atoms[key].listeners = Append(@, cb)]
                      ELSE [W EXCEPT !.sel[sid].listeners = Append(@, cb)]
            IN IF immediate THEN invoke(W1, kind, key, sid, cb, v) ELSE W1

\* atom.py: Atom.unlisten: keeps the callbacks that differ from cb.
without(ls, cb) == SelectSeq(ls, LAMBDA x : x # cb)

----------------------------------------------------------------------------
(* Atom.bind, Atom.bind_two_way, Atom.unbind.  There is one Ref, mounted   *)
(* on the page, and one bound property.                                    *)

\* The closures of kind "bind" or "two" held by some listener list.
Closures(W) ==
    UNION {{W.atoms[k].listeners[n] : n \in 1..Len(W.atoms[k].listeners)}
               : k \in DOMAIN W.atoms}
    \cup UNION {{W.sel[i].listeners[n] : n \in 1..Len(W.sel[i].listeners)}
               : i \in SIds}

\* A closure object that is new: `def listener(value)` makes one per call.
NewClosure(W, kind) ==
    <<kind, CHOOSE n \in 1..(MaxCalls + 1) :
               /\ <<kind, n>> \notin Closures(W)
               /\ \A m \in 1..(n - 1) : <<kind, m>> \in Closures(W)>>

CellListeners(W, kind, key, sid) ==
    IF kind = "atom" THEN W.atoms[key].listeners ELSE W.sel[sid].listeners

CellValue(W, kind, key, sid) ==
    IF kind = "atom" THEN W.atoms[key].value ELSE W.sel[sid].value

\* atom.py: Atom.bind: returns when a listener carrying this Ref is in the
\* list; otherwise appends a new closure and calls it with the value.
cell_bind(W, kind, key, sid) ==
    LET ls == CellListeners(W, kind, key, sid)
    IN IF \E n \in 1..Len(ls) : ls[n][1] = "bind"
       THEN W
       ELSE LET cb == NewClosure(W, "bind")
                W1 == IF kind = "atom"
                      THEN [W EXCEPT !.atoms[key].listeners = Append(@, cb)]
                      ELSE [W EXCEPT !.sel[sid].listeners = Append(@, cb)]
            IN invoke(W1, kind, key, sid, cb, CellValue(W, kind, key, sid))

\* atom.py: Atom.bind_two_way: a new closure goes through listen (immediate),
\* then the control's on_change is set to write this atom.
cell_bind_two_way(W, key) ==
    LET W1 == cell_listen(W, "atom", key, 0, NewClosure(W, "two"), TRUE)
    IN IF W1.err # NoErr THEN W1 ELSE [W1 EXCEPT !.sink.on_change = key]

\* atom.py: Atom.unbind (target a Ref): drops the listeners that carry it.
cell_unbind(ls) == SelectSeq(ls, LAMBDA x : x[1] # "bind")

----------------------------------------------------------------------------
(* Selector construction *)

\* selector.py: _register_dependency_listeners: the selector's callback is
\* put on the atom of every tracked key, once.
RECURSIVE register_dependency_listeners(_, _, _)
register_dependency_listeners(W, sid, ks) ==
    IF ks = <<>> THEN W
    ELSE LET k == Head(ks)
             W1 == atom(W, k, None)
         IN IF W1.err # NoErr THEN W1
            ELSE register_dependency_listeners(
                     cell_listen(W1, "atom", k, 0, DepCb(sid), FALSE),
                     sid, Tail(ks))

\* selector.py: _setup_dependencies: for a coroutine function the value
\* stays None and the first evaluation is scheduled; for a synchronous
\* select_fn the first evaluation with the tracking getter, then the
\* listener registration.
setup_dependencies(W, sid) ==
    LET fn == W.sel[sid].fn
        W1 == [W EXCEPT !.evals = Append(@, sid)]
        R == run_select_fn(W1, fn, <<>>, <<>>)
    IN IF IsAsync(fn) THEN schedule(W, sid, "init")
       ELSE IF R.w.err # NoErr THEN R.w
       ELSE LET ds == {R.keys[i] : i \in 1..Len(R.keys)}
                W2 == [R.w EXCEPT !.sel[sid].deps = ds,
                          !.sel[sid].cached = snapshot(R.keys, R.vals, EmptyMap),
                          !.sel[sid].value = Result(fn, R.vals)]
            IN register_dependency_listeners(W2, sid, SeqOf(ds, W.ord))

\* selector.py: Selector.__init__: a fresh object with value None, no
\* listeners, no dependencies, depth 0 and a free lock, then
\* _setup_dependencies.  An exception leaves no object behind.
\* The constructor ended in world W2: an object whose constructor raised
\* does not exist.
constructed(W2, sid) ==
    IF W2.err # NoErr THEN [W2 EXCEPT !.sel[sid] = FreeSel] ELSE W2

new_selector(W, sid, fn) ==
    constructed(setup_dependencies(
                    [W EXCEPT !.sel[sid] = [FreeSel EXCEPT !.fn = fn]], sid),
                sid)

FreeIds(W) == {i \in SIds : W.sel[i].fn = "free"}

NewId(W) == CHOOSE i \in FreeIds(W) : \A j \in FreeIds(W) : i <= j

----------------------------------------------------------------------------
(* StateManager *)

\* self._selectors[key] = Selector(...): the assignment is made when the
\* constructor returned.
registered(W1, key, sid) ==
    IF W1.err # NoErr THEN W1 ELSE [W1 EXCEPT !.selectors = Put(@, key, sid)]

\* A plausible slip: add_selector builds a selector every time and puts it
\* under the key.
add_selector_rebuild(W, key, fn) ==
    IF key \in DOMAIN W.atoms
    THEN [W EXCEPT !.err = "ValueError"]
    ELSE LET sid == NewId(W)
             W1 == new_selector(W, sid, fn)
         IN IF W1.err # NoErr THEN W1
            ELSE [W1 EXCEPT !.selectors = Put(@, key, sid)]

\* state.py: add_selector(key, select_fn): raises for an atom key, builds
\* the selector when the key is new.
add_selector(W, key, fn) ==
    IF key \in DOMAIN W.atoms
    THEN [W EXCEPT !.err = "ValueError"]
    ELSE IF key \notin DOMAIN W.selectors
         THEN registered(new_selector(W, NewId(W), fn), key, NewId(W))
         ELSE W

\* selector.py: recompute: the snapshot is dropped, then the selector is
\* notified as by a dependency.
recompute(W, sid) ==
    on_dependency_change([W EXCEPT !.sel[sid].cached = EmptyMap], sid)

\* A plausible slip: a read of a selector key brings the selector up to
\* date first.
get_recompute(W, key) ==
    IF key \in DOMAIN W.selectors
    THEN LET W1 == recompute(W, W.selectors[key])
         IN [W1 EXCEPT !.ret = W1.sel[W1.selectors[key]].value]
    ELSE LET W1 == atom(W, key, None)
         IN [W1 EXCEPT !.ret = W1.atoms[key].value]

\* state.py: get(key): the selector's value, or the value of atom(key).
get(W, key) ==
    IF key \in DOMAIN W.selectors
    THEN [W EXCEPT !.ret = W.sel[W.selectors[key]].value]
    ELSE LET W1 == atom(W, key, None)
         IN [W1 EXCEPT !.ret = W1.atoms[key].value]

\* A plausible slip: set dispatching to whatever cell is under the key.
set_atom_value_dispatch(W, key, v) ==
    IF key \in DOMAIN W.selectors
    THEN set_value(W, W.selectors[key], v)
    ELSE atom_set(atom(W, key, None), key, v)

\* state.py: set / _set_atom_value: atom(key), then the atom's gated write.
set_atom_value(W, key, v) ==
    LET W1 == atom(W, key, None)
    IN IF W1.err # NoErr THEN W1 ELSE atom_set(W1, key, v)

\* state.py: listen(key, callback, immediate).
listen(W, key, cb, immediate) ==
    IF key \in DOMAIN W.selectors
    THEN cell_listen(W, "sel", "", W.selectors[key], cb, immediate)
    ELSE LET W1 == atom(W, key, None)
         IN cell_listen(W1, "atom", key, 0, cb, immediate)

\* state.py: bind(key, control, prop, update).
bind(W, key) ==
    IF key \in DOMAIN W.selectors
    THEN cell_bind(W, "sel", "", W.selectors[key])
    ELSE LET W1 == atom(W, key, None)
         IN cell_bind(W1, "atom", key, 0)

\* state.py: bind_two_way(key, control, prop): not for selector keys.
bind_two_way(W, key) ==
    IF key \in DOMAIN W.selectors
    THEN [W EXCEPT !.err = "ValueError"]
    ELSE LET W1 == atom(W, key, None)
         IN cell_bind_two_way(W1, key)

\* state.py: unbind(key, target) with the Ref as target.
unbind(W, key) ==
    IF key \in DOMAIN W.selectors
    THEN [W EXCEPT !.sel[W.selectors[key]].listeners = cell_unbind(@)]
    ELSE IF key \in DOMAIN W.atoms
         THEN [W EXCEPT !.atoms[key].listeners = cell_unbind(@)]
         ELSE W

\* A plausible slip: unlisten empties the listener list of the cell.
unlisten_all(W, key, cb) ==
    IF key \in DOMAIN W.selectors
    THEN [W EXCEPT !.sel[W.selectors[key]].listeners = <<>>]
    ELSE IF key \in DOMAIN W.atoms
         THEN [W EXCEPT !.atoms[key].listeners = <<>>]
         ELSE W

\* state.py: unlisten(key, callback).
unlisten(W, key, cb) ==
    IF key \in DOMAIN W.selectors
    THEN [W EXCEPT !.sel[W.selectors[key]].listeners = without(@, cb)]
    ELSE IF key \in DOMAIN W.atoms
         THEN [W EXCEPT !.atoms[key].listeners = without(@, cb)]
         ELSE W

\* A plausible slip: reset of a selector key is a silent no-op.
reset_selector_silent(W, key, v) ==
    IF key \in DOMAIN W.atoms THEN set_atom_value(W, key, v) ELSE W

\* state.py: reset(key, value).
reset(W, key, v) ==
    IF key \in DOMAIN W.atoms THEN set_atom_value(W, key, v)
    ELSE IF key \in DOMAIN W.selectors THEN [W EXCEPT !.err = "ValueError"]
    ELSE W

\* state.py: delete(key): the key leaves both maps.
delete(W, key) ==
    [W EXCEPT !.atoms = Remove(@, key), !.selectors = Remove(@, key)]

\* A plausible slip: the selectors are torn down, the atoms are kept.
clear_keep_atoms(W) ==
    [W EXCEPT !.selectors = EmptyMap,
              !.sel = [i \in SIds |->
                         IF \E k \in DOMAIN W.selectors : W.selectors[k] = i
                         THEN [W.sel[i] EXCEPT !.listeners = <<>>]
                         ELSE W.sel[i]]]

\* state.py: clear(): every registered cell loses its listeners, then both
\* maps are emptied.
clear(W) ==
    [W EXCEPT !.atoms = EmptyMap, !.selectors = EmptyMap,
              !.sel = [i \in SIds |->
                         IF \E k \in DOMAIN W.selectors : W.selectors[k] = i
                         THEN [W.sel[i] EXCEPT !.listeners = <<>>]
                         ELSE W.sel[i]]]

\* state.py: invalidate(key).
invalidate(W, key) ==
    IF key \in DOMAIN W.selectors THEN recompute(W, W.selectors[key]) ELSE W

----------------------------------------------------------------------------
(* Selector objects nothing refers to any more are reclaimed. *)

Referenced(W) ==
    {W.selectors[k] : k \in DOMAIN W.selectors} \cup
    {W.tasks[n].sid : n \in 1..Len(W.tasks)} \cup
    {i \in SIds : \E k \in DOMAIN W.atoms :
        \E n \in 1..Len(W.atoms[k].listeners) :
            W.atoms[k].listeners[n] = DepCb(i)}

Collect(W) ==
    [i \in SIds |-> IF i \in Referenced(W) THEN W.sel[i] ELSE FreeSel]

----------------------------------------------------------------------------
(* The calls *)

\* The value a getter returns for key k in the current state.
CurVal(k) == IF k \in DOMAIN atoms THEN atoms[k].value ELSE None

\* The values select_fn reads, applied to the current values of its keys.
RECURSIVE pure_reads(_, _)
pure_reads(fn, vs) ==
    LET k == NextRead(fn, vs)
    IN IF k = Done THEN vs ELSE pure_reads(fn, Append(vs, CurVal(k)))

\* The largest dependency set of a selector object alive.
MaxDeps ==
    IF \E i \in SIds : Cardinality(sel[i].deps) > 1 THEN 2 ELSE 1

\* How a key is registered: in neither map, in one of them, or in both.
Kind(key) ==
    IF key \in DOMAIN atoms
    THEN IF key \in DOMAIN selectors THEN "both" ELSE "atom"
    ELSE IF key \in DOMAIN selectors THEN "selector" ELSE "none"

\* No callback: the calls that take none.
NoCb == <<"", 0>>

\* The record of a call: the operation, its arguments, how the key was
\* registered and the value its atom held when the call was made; err, ret
\* and same (the call left both maps and every cell as they were) are
\* filled in when the call ends.
Call(op, key, v, fn) ==
    [op |-> op, key |-> key, val |-> v, fn |-> fn, err |-> NoErr,
     ret |-> None, same |-> TRUE, sid |-> 0, task |-> "", had |-> Kind(key),
     pre |-> IF key \in DOMAIN atoms THEN atoms[key].value ELSE None,
     cb |-> NoCb, imm |-> FALSE, peak |-> 0, skips |-> 0]

\* The keys whose cell has a listener.
Listened ==
    {k \in DOMAIN atoms : atoms[k].listeners # <<>>} \cup
    {k \in DOMAIN selectors : sel[selectors[k]].listeners # <<>>}

\* The history of clear(): "none" before the first clear, "clean" from a
\* clear until the next call that registers a listener, "dirty" after it;
\* keys are the keys that had listeners when clear was called.
Cleared(c) ==
    IF c.op = "clear" THEN [phase |-> "clean", keys |-> Listened]
    ELSE IF /\ c.op \in {"listen", "add_selector", "bind", "bind_two_way"}
            /\ cleared.phase = "clean"
         THEN [phase |-> "dirty", keys |-> {}]
         ELSE cleared

Commit(W, c) ==
    /\ ncalls < MaxCalls
    /\ cleared' = Cleared(c)
    /\ atoms' = W.atoms
    /\ selectors' = W.selectors
    /\ sel' = Collect(W)
    /\ calls' = W.calls
    /\ evals' = W.evals
    /\ sink' = W.sink
    /\ tasks' = W.tasks
    /\ fasp' = W.fasp
    /\ last' = [c EXCEPT !.err = W.err, !.ret = W.ret,
                         !.peak = W.peak, !.skips = W.skips,
                         !.same = (/\ W.atoms = atoms
                                   /\ W.selectors = selectors
                                   /\ Collect(W) = sel)]
    /\ ncalls' = ncalls + 1

Init ==
    /\ atoms = EmptyMap
    /\ selectors = EmptyMap
    /\ sel = [i \in SIds |-> FreeSel]
    /\ last = [op |-> "init", key |-> "", val |-> None, fn |-> "",
               err |-> NoErr, ret |-> None, same |-> TRUE, sid |-> 0,
               task |-> "", had |-> "none", pre |-> None, cb |-> NoCb,
               imm |-> FALSE, peak |-> 0, skips |-> 0]
    /\ cleared = [phase |-> "none", keys |-> {}]
    /\ sink = [value |-> None, on_change |-> ""]
    /\ tasks = <<>>
    /\ calls = <<>>
    /\ evals = <<>>
    /\ ncalls = 0
    /\ fasp = [atoms |-> EmptyMap, selectors |-> EmptyMap,
               sel |-> [i \in SIds |-> FreeSel], calls |-> <<>>,
               evals |-> <<>>, err |-> NoErr]

Atom ==
    \E key \in Keys, default \in Defaults :
        Commit(atom(World(<<>>), key, default), Call("atom", key, default, ""))

(* The registrations add_selector is called with: a selector over other keys,
   a selector registered under a key its own function reads, a selector over a
   selector, and a selector that reads nothing. *)
SelectorInputs ==
    {<<"s", "copy_a">>, <<"b", "copy_a">>, <<"a", "copy_a">>,
     <<"b", "read_s">>, <<"a", "read_s">>,
     <<"s", "eq_ab">>, <<"b", "const1">>}

AddSelector ==
    \E key \in Keys, fn \in Fns :
      \E ord \in OrdersFor(Len(pure_reads(fn, <<>>))) :
        /\ ncalls < MaxCalls
        /\ <<key, fn>> \in SelectorInputs
        /\ FreeIds(World(ord)) # {}
        /\ Commit(add_selector(World(ord), key, fn),
                  Call("add_selector", key, None, fn))

Get ==
    \E key \in Keys :
        Commit(get(World(<<>>), key), Call("get", key, None, ""))

Set ==
    \E key \in Keys, ord \in OrdersFor(MaxDeps) :
      \E v \in SetValues(key) :
        Commit(set_atom_value(World(ord), key, v), Call("set", key, v, ""))

Listen ==
    \E key \in ListenKeys, cb \in Callbacks, imm \in BOOLEAN :
        Commit(listen(World(<<>>), key, cb, imm),
               [Call("listen", key, None, "") EXCEPT !.cb = cb, !.imm = imm])

Unlisten ==
    \E key \in ListenKeys, cb \in Callbacks :
        Commit(unlisten(World(<<>>), key, cb),
               [Call("unlisten", key, None, "") EXCEPT !.cb = cb])

Reset ==
    \E key \in Keys, v \in ResetValues, ord \in OrdersFor(MaxDeps) :
        Commit(reset(World(ord), key, v), Call("reset", key, v, ""))

Delete ==
    \E key \in Keys :
        Commit(delete(World(<<>>), key), Call("delete", key, None, ""))

Clear ==
    Commit(clear(World(<<>>)), Call("clear", "", None, ""))

Invalidate ==
    \E key \in Keys, ord \in OrdersFor(MaxDeps) :
        Commit(invalidate(World(ord), key), Call("invalidate", key, None, ""))

Next ==
    \/ Atom
    \/ AddSelector
    \/ Get
    \/ Set
    \/ Listen
    \/ Unlisten
    \/ Reset
    \/ Delete
    \/ Clear
    \/ Invalidate

Spec == Init /\ [][Next]_vars

----------------------------------------------------------------------------
(* Asynchronous selectors.  A task runs on the event loop or on a thread   *)
(* of its own, so its steps interleave with the calls in any order; what   *)
(* a task raises is caught and printed by run_with_tracking and            *)
(* _handle_async.                                                          *)

RemoveAt(q, n) == SubSeq(q, 1, n - 1) \o SubSeq(q, n + 1, Len(q))

\* The keys under which selector object sid is registered.
KeysOf(sid) == {k \in DOMAIN selectors : selectors[k] = sid}

\* The record of a task step: the selector object, its compute function,
\* the kind of task, the value the selector held, and in err what the task
\* printed.
TaskCall(op, t) ==
    [Call(op, "", None, sel[t.sid].fn) EXCEPT
        !.sid = t.sid, !.task = t.kind, !.pre = sel[t.sid].value,
        !.had = IF KeysOf(t.sid) # {} THEN "selector" ELSE "none"]

CommitTask(W, c) ==
    /\ atoms' = W.atoms
    /\ selectors' = W.selectors
    /\ sel' = Collect(W)
    /\ calls' = W.calls
    /\ evals' = W.evals
    /\ sink' = W.sink
    /\ tasks' = W.tasks
    /\ fasp' = W.fasp
    /\ last' = [c EXCEPT !.peak = W.peak, !.skips = W.skips,
                         !.same = (/\ W.atoms = atoms
                                   /\ W.selectors = selectors
                                   /\ Collect(W) = sel)]
    /\ UNCHANGED <<ncalls, cleared>>

\* The coroutine of task n runs up to its await: select_fn is entered (for
\* the first evaluation here, with the tracking getter) and makes its
\* reads; a read that raises ends the task.
task_start(W, n) ==
    LET t == W.tasks[n]
        W1 == IF t.kind = "init"
              THEN [W EXCEPT !.evals = Append(@, t.sid)]
              ELSE W
        R == run_select_fn(W1, W.sel[t.sid].fn, <<>>, <<>>)
    IN IF R.w.err # NoErr
       THEN [R.w EXCEPT !.tasks = RemoveAt(@, n)]
       ELSE [R.w EXCEPT !.tasks[n].phase = "waiting",
                        !.tasks[n].keys = R.keys,
                        !.tasks[n].vals = R.vals]

\* History: the result v of task t is about to be stored by _set_value.
stamp(W, t, v) ==
    IF ~deep_equal(v, W.sel[t.sid].value)
    THEN [W EXCEPT !.sel[t.sid].applied = t.by]
    ELSE W

\* selector.py: run_with_tracking after the await returned: dependencies
\* and snapshot are replaced, the listeners registered, the value set.
resolve_init(W, t) ==
    LET sid == t.sid
        ds == {t.keys[i] : i \in 1..Len(t.keys)}
        W1 == [W EXCEPT !.sel[sid].deps = ds,
                        !.sel[sid].cached = snapshot(t.keys, t.vals, EmptyMap)]
        W2 == register_dependency_listeners(W1, sid, SeqOf(ds, W.ord))
    IN IF W2.err # NoErr THEN W2
       ELSE set_value(stamp(W2, t, Result(W.sel[sid].fn, t.vals)), sid,
                      Result(W.sel[sid].fn, t.vals))

\* selector.py: _handle_async after the await returned.
resolve_re(W, t) ==
    set_value(stamp(W, t, Result(W.sel[t.sid].fn, t.vals)), t.sid,
              Result(W.sel[t.sid].fn, t.vals))

\* The await of task n ends: it raised, or it returned and the result is
\* applied.
task_resolve(W, n, ok) ==
    LET t == W.tasks[n]
        W1 == [W EXCEPT !.tasks = RemoveAt(@, n)]
    IN IF ~ok THEN [W1 EXCEPT !.err = "AwaitError"]
       ELSE IF t.kind = "init" THEN resolve_init(W1, t)
       ELSE resolve_re(W1, t)

\* What the task raised is printed, not raised to anyone.
printed(W) == [W EXCEPT !.err = NoErr]

AsyncKeys == {"a", "s"}

AddSelectorAsync ==
    \E key \in AsyncKeys, fn \in AsyncFns :
        /\ ncalls < MaxCalls
        /\ FreeIds(World(<<>>)) # {}
        /\ Commit(add_selector(World(<<>>), key, fn),
                  Call("add_selector", key, None, fn))

TaskStart ==
    \E n \in 1..Len(tasks) :
        /\ tasks[n].phase = "new"
        /\ LET W == task_start(World(<<>>), n)
           IN CommitTask(printed(W),
                         [TaskCall("start", tasks[n]) EXCEPT !.err = W.err])

TaskResolve ==
    \E n \in 1..Len(tasks), ok \in BOOLEAN :
        /\ tasks[n].phase = "waiting"
        /\ LET W == task_resolve(World(<<"a", "b", "s">>), n, ok)
           IN CommitTask(printed(W),
                         [TaskCall("resolve", tasks[n]) EXCEPT
                             !.err = W.err,
                             !.val = Result(sel[tasks[n].sid].fn,
                                            tasks[n].vals)])

NextAsync ==
    \/ AddSelectorAsync
    \/ Set
    \/ Listen
    \/ Get
    \/ Invalidate
    \/ Delete
    \/ Clear
    \/ TaskStart
    \/ TaskResolve

SpecAsync == Init /\ [][NextAsync]_vars

----------------------------------------------------------------------------
(* A synchronous selector with callers on several threads.  A call that    *)
(* makes the selector evaluate stops after the snapshot, with the lock      *)
(* held; the other threads make their calls; Evaluate lets the thread go    *)
(* on.  There is one selector key and the atoms have no other listeners,    *)
(* so nothing of a stopped call is left to run but the evaluation.          *)

ConcFns == {"eq_ab", "copy_a"}
ConcKeys == {"a", "b"}
ConcValues == {None, I1}

\* The thread of evaluation n goes on: select_fn, _set_value, finally.
evaluate_parked(W, n) ==
    LET sid == W.tasks[n].sid
    IN release(evaluate([W EXCEPT !.tasks = RemoveAt(@, n)], sid), sid)

AddSelectorConc ==
    \E fn \in ConcFns :
        /\ ncalls < MaxCalls
        /\ FreeIds(World(<<"a", "b", "s">>)) # {}
        /\ Commit(add_selector(World(<<"a", "b", "s">>), "s", fn),
                  Call("add_selector", "s", None, fn))

SetConc ==
    \E key \in ConcKeys, v \in ConcValues :
        Commit(set_atom_value(Threaded(World(<<"a", "b", "s">>)), key, v),
               Call("set", key, v, ""))

InvalidateConc ==
    Commit(invalidate(Threaded(World(<<"a", "b", "s">>)), "s"),
           Call("invalidate", "s", None, ""))

ListenConc ==
    \E imm \in BOOLEAN :
        Commit(listen(World(<<>>), "s", Recorder, imm),
               [Call("listen", "s", None, "") EXCEPT
                   !.cb = Recorder, !.imm = imm])

Evaluate ==
    \E n \in 1..Len(tasks) :
        /\ tasks[n].kind = "sync"
        /\ LET W == evaluate_parked(Threaded(World(<<"a", "b", "s">>)), n)
           IN CommitTask(W, [TaskCall("evaluate", tasks[n]) EXCEPT
                                !.err = W.err])

NextConc ==
    \/ AddSelectorConc
    \/ SetConc
    \/ InvalidateConc
    \/ ListenConc
    \/ Get
    \/ Evaluate

SpecConc == Init /\ [][NextConc]_vars

----------------------------------------------------------------------------
(* The registry with a selector whose reads depend on the values read *)

DynKeys == {"s"}

AddSelectorDyn ==
    \E key \in DynKeys, fn \in DynFns :
        /\ ncalls < MaxCalls
        /\ FreeIds(World(<<"a", "b", "s">>)) # {}
        /\ Commit(add_selector(World(<<"a", "b", "s">>), key, fn),
                  Call("add_selector", key, None, fn))

NextDyn ==
    \/ AddSelectorDyn
    \/ Atom
    \/ Set
    \/ Get
    \/ Listen
    \/ Invalidate
    \/ Delete

SpecDyn == Init /\ [][NextDyn]_vars

----------------------------------------------------------------------------
(* The registry with a listener that writes an atom while it is notified *)

ReentFns == {"copy_a", "eq_ab"} \cup PartialFns
ReentCallbacks == {Writer, Recorder, Raiser}

AddSelectorReent ==
    \E fn \in ReentFns, ord \in Orders :
        /\ ncalls < MaxCalls
        /\ FreeIds(World(ord)) # {}
        /\ Commit(add_selector(World(ord), "s", fn),
                  Call("add_selector", "s", None, fn))

ListenReent ==
    \E key \in ListenKeys, cb \in ReentCallbacks, imm \in BOOLEAN, ord \in Orders :
        Commit(listen(World(ord), key, cb, imm),
               [Call("listen", key, None, "") EXCEPT !.cb = cb, !.imm = imm])

NextReent ==
    \/ AddSelectorReent
    \/ ListenReent
    \/ Set
    \/ Invalidate
    \/ Delete

SpecReent == Init /\ [][NextReent]_vars

----------------------------------------------------------------------------
(* The registry next to the same registry with the selectors of fasp: every *)
(* call is made on both.                                                    *)

\* The world a call on the fasp registry works on.
FaspWorld(ord) ==
    [World(ord) EXCEPT !.atoms = fasp.atoms, !.selectors = fasp.selectors,
                       !.sel = fasp.sel]

\* The fasp registry after a call.
FaspState(W) ==
    [atoms |-> W.atoms, selectors |-> W.selectors, sel |-> W.sel,
     calls |-> W.calls, evals |-> W.evals, err |-> W.err]

RECURSIVE fasp_register(_, _, _)
fasp_register(W, sid, ks) ==
    IF ks = <<>> THEN W
    ELSE LET k == Head(ks)
             W1 == atom(W, k, None)
         IN IF W1.err # NoErr THEN W1
            ELSE fasp_register(
                     cell_listen(W1, "atom", k, 0, FaspDepCb(sid), FALSE),
                     sid, Tail(ks))

\* fasp/selector.py: _setup_dependencies: the first run with the tracking
\* getter, then a listener on every key read.
fasp_setup_dependencies(W, sid) ==
    LET fn == W.sel[sid].fn
        W1 == [W EXCEPT !.evals = Append(@, sid)]
        R == run_select_fn(W1, fn, <<>>, <<>>)
    IN IF R.w.err # NoErr THEN R.w
       ELSE LET ds == {R.keys[i] : i \in 1..Len(R.keys)}
                W2 == [R.w EXCEPT !.sel[sid].deps = ds,
                                  !.sel[sid].value = Result(fn, R.vals)]
            IN fasp_register(W2, sid, SeqOf(ds, W.ord))

\* fasp/state.py: add_selector with Selector(select_fn, self.atom).
fasp_add_selector(W, key, fn) ==
    IF key \in DOMAIN W.atoms
    THEN [W EXCEPT !.err = "ValueError"]
    ELSE IF key \notin DOMAIN W.selectors
         THEN registered(
                  constructed(
                      fasp_setup_dependencies(
                          [W EXCEPT !.sel[NewId(W)] = [FreeSel EXCEPT !.fn = fn]],
                          NewId(W)),
                      NewId(W)),
                  key, NewId(W))
         ELSE W

\* A call made on both registries.
Both(W, F) == [W EXCEPT !.fasp = FaspState(F)]

MemoFns == {"copy_a", "eq_ab", "list_a"}
MemoCallbacks == {Recorder, Writer}
MemoKeys == {"a", "b"}

AddSelectorMemo ==
    \E fn \in MemoFns, ord \in Orders :
        /\ ncalls < MaxCalls
        /\ FreeIds(World(ord)) # {}
        /\ Commit(Both(add_selector(World(ord), "s", fn),
                       fasp_add_selector(FaspWorld(ord), "s", fn)),
                  Call("add_selector", "s", None, fn))

ListenMemo ==
    \E cb \in MemoCallbacks, imm \in BOOLEAN, ord \in Orders :
        Commit(Both(listen(World(ord), "s", cb, imm),
                    listen(FaspWorld(ord), "s", cb, imm)),
               [Call("listen", "s", None, "") EXCEPT !.cb = cb, !.imm = imm])

SetMemo ==
    \E key \in MemoKeys, v \in Values, ord \in Orders :
        Commit(Both(set_atom_value(World(ord), key, v),
                    set_atom_value(FaspWorld(ord), key, v)),
               Call("set", key, v, ""))

NextMemo ==
    \/ AddSelectorMemo
    \/ ListenMemo
    \/ SetMemo

SpecMemo == Init /\ [][NextMemo]_vars

----------------------------------------------------------------------------
(* The registry with the binding calls *)

BindKeys == {"a", "s"}

Bind ==
    \E key \in BindKeys :
        Commit(bind(World(<<>>), key), Call("bind", key, None, ""))

BindTwoWay ==
    \E key \in BindKeys :
        Commit(bind_two_way(World(<<>>), key),
               Call("bind_two_way", key, None, ""))

Unbind ==
    \E key \in BindKeys :
        Commit(unbind(World(<<>>), key), Call("unbind", key, None, ""))

\* The handler installed by the last bind_two_way writes the Atom object
\* that is registered under its key: the key is an atom that carries a
\* closure of bind_two_way (a deleted and re-created key carries none).
SinkLive ==
    /\ sink.on_change \in DOMAIN atoms
    /\ \E n \in 1..Len(atoms[sink.on_change].listeners) :
           atoms[sink.on_change].listeners[n][1] = "two"

\* The values a user enters into the control.
SinkValues == {I1, T1}

\* atom.py: on_change(e) of bind_two_way: the control holds the entered
\* value and the handler writes it to the atom with Atom.set.
sink_change(W, y) ==
    atom_set([W EXCEPT !.sink.value = y], W.sink.on_change, y)

\* The control fires its change event.
SinkChange ==
    \E y \in SinkValues :
        /\ SinkLive
        /\ Commit(sink_change(World(<<"a", "b", "s">>), y),
                  Call("change", sink.on_change, y, ""))

NextBind ==
    \/ Next
    \/ Bind
    \/ BindTwoWay
    \/ Unbind
    \/ SinkChange

SpecBind == Init /\ [][NextBind]_vars

----------------------------------------------------------------------------
(* Helpers of the properties *)

\* select_fn applied to the current values of the keys it reads.
Expected(fn) == Result(fn, pure_reads(fn, <<>>))

\* The keys select_fn reads.
RECURSIVE read_keys(_, _)
read_keys(fn, vs) ==
    LET k == NextRead(fn, vs)
    IN IF k = Done THEN {} ELSE {k} \cup read_keys(fn, Append(vs, None))

FnKeys(fn) == read_keys(fn, <<>>)

Has(ls, cb) == \E i \in 1..Len(ls) : ls[i] = cb

\* Every dependency of the selector object is a registered atom that
\* carries the selector's callback.
Subscribed(sid) ==
    \A k \in sel[sid].deps :
        /\ k \in DOMAIN atoms
        /\ k \notin DOMAIN selectors
        /\ Has(atoms[k].listeners, DepCb(sid))

\* The number of times select_fn of object sid ran during the last call.
Evals(sid) == Cardinality({i \in 1..Len(evals) : evals[i] = sid})

\* The callbacks invoked by the atom under key during the last call.
RECURSIVE invoked_by(_, _)
invoked_by(cs, key) ==
    IF cs = <<>> THEN <<>>
    ELSE IF Head(cs).cell = "atom" /\ Head(cs).key = key
         THEN <<Head(cs).cb>> \o invoked_by(Tail(cs), key)
         ELSE invoked_by(Tail(cs), key)

\* The last call was a set on an atom key that changed the atom's value.
SetChanged ==
    /\ last.op = "set"
    /\ last.had \in {"atom", "none"}
    /\ ~deep_equal(last.pre, last.val)

----------------------------------------------------------------------------
(* C1: after set(key, v) on an atom, the atom holds v when the oracle       *)
(* reported v different from the stored value, and otherwise it holds the   *)
(* stored value as it was and no listener was invoked.                      *)
C1_GatedSet ==
    (last.op = "set" /\ last.had \in {"atom", "none"}) =>
        /\ last.key \in DOMAIN atoms
        /\ IF dumps(last.pre) = dumps(last.val)
           THEN atoms[last.key].value = last.pre /\ calls = <<>>
           ELSE atoms[last.key].value = last.val

\* A set of the tuple (1,) on an atom that holds the list [1] and has a
\* listener: oracle-equal, yet another value.
C1_Witness ==
    /\ last.op = "set"
    /\ last.pre = L1
    /\ last.val = T1
    /\ last.key \in DOMAIN atoms
    /\ atoms[last.key].listeners # <<>>
    /\ last.err = NoErr

(* C2: the key sets of the atom map and of the selector map are disjoint.   *)
C2_Disjoint == (DOMAIN atoms) \cap (DOMAIN selectors) = {}

(* C3: when a set call returns, every registered selector whose callback   *)
(* is installed on the atoms of all its dependencies holds a value          *)
(* oracle-equal to its compute function applied to the current values of    *)
(* those dependencies (stated for registries in which no key is of both     *)
(* kinds).                                                                  *)
C3_FullPropagation ==
    (last.op = "set" /\ last.err = NoErr /\ C2_Disjoint) =>
        \A k \in DOMAIN selectors :
            Subscribed(selectors[k]) =>
                deep_equal(sel[selectors[k]].value,
                           Expected(sel[selectors[k]].fn))

(* C4: for a registered selector that depends on {a, b} and has its         *)
(* callback installed on both atoms, a set on a that changes a runs the     *)
(* compute function exactly once, and a set on a or b with an oracle-equal  *)
(* value runs it zero times.                                                *)
C4_OneRecomputation ==
    (last.op = "set" /\ last.key \in {"a", "b"}
                     /\ last.had \in {"atom", "none"}) =>
        \A k \in DOMAIN selectors :
            LET sid == selectors[k]
            IN (sel[sid].deps = {"a", "b"} /\ Subscribed(sid)) =>
                   IF deep_equal(last.pre, last.val)
                   THEN Evals(sid) = 0
                   ELSE last.key = "a" => Evals(sid) = 1

(* C5: when set changes an atom's value, the listeners registered on the    *)
(* atom are invoked once each with the new value, in registration order     *)
(* (stated for registries in which no key is of both kinds).                *)
C5_AllListenersInOrder ==
    (SetChanged /\ C2_Disjoint) =>
        /\ invoked_by(calls, last.key) = atoms[last.key].listeners
        /\ \A i \in 1..Len(calls) :
               (calls[i].cell = "atom" /\ calls[i].key = last.key)
                   => calls[i].val = last.val

(* C6: when a listener raises during the notification round of a set, the   *)
(* listeners after it are still invoked, the atom keeps the new value and   *)
(* the set call returns without raising.                                    *)
C6_ListenerIsolation ==
    (SetChanged /\ Has(atoms[last.key].listeners, Raiser)) =>
        /\ invoked_by(calls, last.key) = atoms[last.key].listeners
        /\ atoms[last.key].value = last.val
        /\ last.err = NoErr

(* C7: add_selector of a compute function that reads the key of an          *)
(* already registered selector registers the new selector with the compute  *)
(* function applied to that selector's value.                               *)
C7_SelectorOnSelector ==
    (/\ last.op = "add_selector"
     /\ last.had = "none"
     /\ \E k \in Keys \ {last.key} :
            FnKeys(last.fn) = {k} /\ Kind(k) = "selector") =>
        /\ last.err = NoErr
        /\ last.key \in DOMAIN selectors
        /\ \A k \in FnKeys(last.fn) :
                   deep_equal(sel[selectors[last.key]].value,
                              Result(last.fn, <<sel[selectors[k]].value>>))

(* C8: registering a selector whose compute function reads a selector that  *)
(* reads it back ends in the circular-dependency RuntimeError.              *)
C8_CycleDetected ==
    (/\ last.op = "add_selector"
     /\ last.key \notin FnKeys(last.fn)
     /\ \E k \in FnKeys(last.fn) :
            /\ Kind(k) = "selector"
            /\ sel[selectors[k]].deps = {last.key}) =>
        last.err = "RuntimeError"

(* C9: get(key) on a key that is in neither map leaves the key in neither   *)
(* map.                                                                     *)
C9_GetCreatesNothing ==
    (last.op = "get" /\ last.had = "none") =>
        last.key \notin (DOMAIN atoms) \cup (DOMAIN selectors)

(* C10: atom(key, default) on a selector key and add_selector(key, fn) on   *)
(* an atom key raise ValueError and change neither map, no cell and no      *)
(* listener list, and run no compute function and no listener.              *)
C10_KindConflict ==
    [][((last'.op = "atom" /\ last'.had \in {"selector", "both"})
        \/ (last'.op = "add_selector" /\ last'.had \in {"atom", "both"})) =>
           /\ last'.err = "ValueError"
           /\ atoms' = atoms
           /\ selectors' = selectors
           /\ sel' = sel
           /\ evals' = <<>>
           /\ calls' = <<>>]_vars

\* atom(key) was called on the key of a registered selector that listens to
\* its dependencies.
C10_Witness ==
    /\ last.op = "atom"
    /\ last.had = "selector"
    /\ last.err = "ValueError"
    /\ last.key \in DOMAIN selectors
    /\ sel[selectors[last.key]].deps # {}
    /\ Subscribed(selectors[last.key])

(* C11: invalidate(key) on a registered selector runs its compute function  *)
(* exactly once, whatever its dependency set; invalidate on an atom key or  *)
(* an unregistered key runs no compute function, invokes no listener and    *)
(* leaves the key registered as it was.                                     *)
C11_InvalidateRecomputes ==
    (last.op = "invalidate") =>
        IF last.had = "selector"
        THEN /\ last.key \in DOMAIN selectors
             /\ Evals(selectors[last.key]) = 1
        ELSE (last.had \in {"atom", "none"}) =>
                 /\ evals = <<>>
                 /\ calls = <<>>
                 /\ Kind(last.key) = last.had

(* C12: from a clear() until the next call that registers a listener, no    *)
(* call (atom, set, reset, invalidate, ...) invokes any listener: nothing    *)
(* registered before the clear is invoked on the re-created keys.           *)
C12_NoLeakAfterClear == (cleared.phase = "clean") => calls = <<>>

\* After a clear, a key that had listeners was re-created with atom() and
\* then changed by a set that returned.
C12_Witness ==
    /\ cleared.phase = "clean"
    /\ last.op = "set"
    /\ last.had = "atom"
    /\ last.key \in cleared.keys
    /\ ~deep_equal(last.pre, last.val)
    /\ last.err = NoErr

(* C13: delete(key) invokes no listener and removes the key from both maps, *)
(* and no later call makes a selector that is no longer registered invoke   *)
(* its listeners.                                                           *)
C13_DeleteSilences ==
    /\ (last.op = "delete") =>
           /\ calls = <<>>
           /\ last.key \notin (DOMAIN atoms) \cup (DOMAIN selectors)
    /\ \A i \in 1..Len(calls) :
           (calls[i].cell = "sel") =>
               \E k \in DOMAIN selectors : selectors[k] = calls[i].sid

(* C14: reset(key, v) on an atom key is the gated write of set (an          *)
(* oracle-equal v stores nothing and invokes no listener, another v is      *)
(* stored and the notification round starts with the first listener);       *)
(* reset on a selector key raises ValueError and changes no map, no cell,   *)
(* no snapshot and no listener list, and invokes nothing.                   *)
C14_Reset ==
    (last.op = "reset") =>
        /\ (last.had = "atom") =>
               /\ last.key \in DOMAIN atoms
               /\ IF deep_equal(last.pre, last.val)
                  THEN last.same /\ calls = <<>>
                  ELSE /\ atoms[last.key].value = last.val
                       /\ (atoms[last.key].listeners # <<>>) =>
                              /\ calls # <<>>
                              /\ calls[1].cb = atoms[last.key].listeners[1]
                              /\ calls[1].val = last.val
        /\ (last.had \in {"selector", "both"}) =>
               /\ last.err = "ValueError"
               /\ last.same
               /\ evals = <<>>
               /\ calls = <<>>

\* reset was called on the key of a registered selector that has a listener
\* and listens to its dependencies.
C14_Witness ==
    /\ last.op = "reset"
    /\ last.had = "selector"
    /\ last.key \in DOMAIN selectors
    /\ sel[selectors[last.key]].listeners # <<>>
    /\ sel[selectors[last.key]].deps # {}
    /\ Subscribed(selectors[last.key])

\* The number of times the atom under key invoked cb during the last call.
Invoked(key, cb) ==
    Cardinality({i \in 1..Len(calls) :
        calls[i].cell = "atom" /\ calls[i].key = key /\ calls[i].cb = cb})

NoDup(ls) == \A i, j \in 1..Len(ls) : ls[i] = ls[j] => i = j

(* C18: no listener list of an atom or of a selector holds a callback       *)
(* twice, and a set that changes an atom's value invokes every callback of  *)
(* its list exactly once (the latter stated for registries in which no key  *)
(* is of both kinds).                                                       *)
C18_NoDuplicateListeners ==
    /\ \A k \in DOMAIN atoms : NoDup(atoms[k].listeners)
    /\ \A i \in SIds : NoDup(sel[i].listeners)
    /\ (SetChanged /\ C2_Disjoint) =>
           \A n \in 1..Len(atoms[last.key].listeners) :
               Invoked(last.key, atoms[last.key].listeners[n]) = 1

(* C19: get(key) on a selector key returns the value the selector holds,    *)
(* runs no compute function, invokes no listener and changes no map, no     *)
(* cell, no snapshot, no dependency set and no listener list.               *)
C19_GetIsPure ==
    (last.op = "get" /\ last.had \in {"selector", "both"}) =>
        /\ last.err = NoErr
        /\ last.key \in DOMAIN selectors
        /\ last.ret = sel[selectors[last.key]].value
        /\ last.same
        /\ evals = <<>>
        /\ calls = <<>>

\* get was called on a selector whose dependency has changed since its last
\* evaluation, and returned the selector's old value.
C19_Witness ==
    /\ last.op = "get"
    /\ last.had = "selector"
    /\ last.key \in DOMAIN selectors
    /\ sel[selectors[last.key]].deps # {}
    /\ sel[selectors[last.key]].deps \subseteq DOMAIN atoms
    /\ ~deep_equal(sel[selectors[last.key]].value,
                   Expected(sel[selectors[last.key]].fn))
    /\ last.ret = sel[selectors[last.key]].value

\* The atoms that carry the dependency callback of selector object sid.
Installed(sid) ==
    {k \in DOMAIN atoms : Has(atoms[k].listeners, DepCb(sid))}

\* The first evaluation of selector object sid is in flight.
InFlightInit(sid) ==
    \E n \in 1..Len(tasks) : tasks[n].sid = sid /\ tasks[n].kind = "init"

\* The last call scheduled a recomputation.
Triggered ==
    \E n \in 1..Len(tasks) : tasks[n].kind = "re" /\ tasks[n].by = ncalls

\* The number of times selector object sid invoked cb during the last step.
SelInvoked(sid, cb, v) ==
    Cardinality({i \in 1..Len(calls) :
        /\ calls[i].cell = "sel"
        /\ calls[i].sid = sid
        /\ calls[i].cb = cb
        /\ calls[i].val = v})

(* C15: when the await of a recomputation raises, the selector keeps its    *)
(* value and nothing is invoked or changed; and a set that changed a        *)
(* dependency and triggered a recomputation returns without raising, with   *)
(* every listener of the dependency invoked, in order.                      *)
C15_AsyncFailureContained ==
    /\ (last.op = "resolve" /\ last.task = "re" /\ last.err = "AwaitError") =>
           /\ calls = <<>>
           /\ (last.had = "selector") =>
                  /\ last.same
                  /\ sel[last.sid].value = last.pre
    /\ (SetChanged /\ Triggered) =>
           /\ last.err = NoErr
           /\ invoked_by(calls, last.key) = atoms[last.key].listeners

(* C16: while the first evaluation of an asynchronous selector is in        *)
(* flight the selector's value is None and no atom carries its dependency   *)
(* callback; when that evaluation's await returns, the callback is on       *)
(* exactly the atoms of the keys the compute function read; when it raises, *)
(* on none; and the callback is never on an atom outside the dependencies.  *)
C16_AsyncFirstEvaluation ==
    /\ \A i \in SIds :
           (IsAsync(sel[i].fn) /\ InFlightInit(i)) =>
               /\ sel[i].value = None
               /\ Installed(i) = {}
    /\ \A i \in SIds :
           IsAsync(sel[i].fn) => Installed(i) \subseteq sel[i].deps
    /\ (last.op = "resolve" /\ last.task = "init") =>
           IF last.err = "AwaitError"
           THEN Installed(last.sid) = {}
           ELSE Installed(last.sid) = FnKeys(last.fn)

(* C17: when the await of a recomputation returns, the selector's value is  *)
(* oracle-equal to the result, and if the result differs from the value     *)
(* held before, every listener of the selector has been invoked with it     *)
(* exactly once.                                                            *)
C17_AsyncResultDelivered ==
    (/\ last.op = "resolve"
     /\ last.task = "re"
     /\ last.err # "AwaitError"
     /\ last.had = "selector") =>
        /\ deep_equal(sel[last.sid].value, last.val)
        /\ ~deep_equal(last.pre, last.val) =>
               \A n \in 1..Len(sel[last.sid].listeners) :
                   SelInvoked(last.sid, sel[last.sid].listeners[n],
                              sel[last.sid].value) = 1

\* The closures of the given kind in a listener list.
OfKind(ls, kind) == {n \in 1..Len(ls) : ls[n][1] = kind}

\* The writes of the control made by closures of the given kind during the
\* last call.
Writes(kind) == {i \in 1..Len(calls) : calls[i].cb[1] = kind}

(* C20: whatever bind and bind_two_way calls were made, a cell's listener   *)
(* list holds at most one closure made by bind and at most one made by      *)
(* bind_two_way for the control, and a set that changes the atom writes the *)
(* control at most once per binding operation.                              *)
C20_BindIdempotent ==
    /\ \A k \in DOMAIN atoms :
           /\ Cardinality(OfKind(atoms[k].listeners, "bind")) <= 1
           /\ Cardinality(OfKind(atoms[k].listeners, "two")) <= 1
    /\ \A i \in SIds :
           /\ Cardinality(OfKind(sel[i].listeners, "bind")) <= 1
           /\ Cardinality(OfKind(sel[i].listeners, "two")) <= 1
    /\ SetChanged =>
           /\ Cardinality(Writes("bind")) <= 1
           /\ Cardinality(Writes("two")) <= 1

\* The closures of bind and bind_two_way in a listener list.
Bindings(ls) == {n \in 1..Len(ls) : ls[n][1] \in {"bind", "two"}}

\* The atom under key is the one cell bound to the control, and it is bound
\* two-way.
BoundTwoWay(key) ==
    /\ key \in DOMAIN atoms
    /\ sink.on_change = key
    /\ OfKind(atoms[key].listeners, "two") # {}
    /\ \A k \in (DOMAIN atoms) \ {key} : Bindings(atoms[k].listeners) = {}
    /\ \A i \in SIds : Bindings(sel[i].listeners) = {}

\* The number of times closure cb was invoked with v during the last call.
Written(cb, v) ==
    Cardinality({i \in 1..Len(calls) : calls[i].cb = cb /\ calls[i].val = v})

(* C21: with an atom bound two-way to the control (and no other cell bound   *)
(* to it), a set that changes the atom leaves the control's property equal  *)
(* to the value set; and when the control fires its change event holding Y, *)
(* the atom's value is oracle-equal to Y afterwards, the handler returns,   *)
(* and if Y differs from the value held before, every closure of            *)
(* bind_two_way on the atom has been invoked with Y exactly once.           *)
C21_TwoWayRoundTrip ==
    /\ (SetChanged /\ BoundTwoWay(last.key)) => sink.value = last.val
    /\ (last.op = "change" /\ BoundTwoWay(last.key)) =>
           /\ deep_equal(atoms[last.key].value, last.val)
           /\ last.err = NoErr
           /\ ~deep_equal(last.pre, last.val) =>
                  \A n \in OfKind(atoms[last.key].listeners, "two") :
                      Written(atoms[last.key].listeners[n], last.val) = 1

\* The listener list and the value of the cell a call on key works on: the
\* selector under the key, else the atom under it, else a new atom.
ListenersOf(key) ==
    IF key \in DOMAIN selectors THEN sel[selectors[key]].listeners
    ELSE IF key \in DOMAIN atoms THEN atoms[key].listeners
    ELSE <<>>

ValueOf(key) ==
    IF key \in DOMAIN selectors THEN sel[selectors[key]].value
    ELSE IF key \in DOMAIN atoms THEN atoms[key].value
    ELSE None

(* C22: listen(key, cb, immediate) with cb not in the cell's listener list  *)
(* makes the list the old list with cb appended; with immediate true cb is  *)
(* the one listener invoked during the call, once, with the value the cell  *)
(* held; with immediate false no listener is invoked during the call.       *)
C22_Listen ==
    [][(last'.op = "listen" /\ ~Has(ListenersOf(last'.key), last'.cb)) =>
           /\ ListenersOf(last.key)' = Append(ListenersOf(last'.key), last'.cb)
           /\ IF last'.imm
              THEN /\ Len(calls') = 1
                   /\ calls'[1].cb = last'.cb
                   /\ calls'[1].val = ValueOf(last'.key)
              ELSE calls' = <<>>]_vars

\* listen with immediate true has put a callback behind another one and
\* called it with a value other than None.
C22_Witness ==
    /\ last.op = "listen"
    /\ last.imm
    /\ Len(ListenersOf(last.key)) >= 2
    /\ ListenersOf(last.key)[Len(ListenersOf(last.key))] = last.cb
    /\ Len(calls) = 1
    /\ calls[1].cb = last.cb
    /\ calls[1].val # None

(* C23: unlisten(key, cb) leaves both maps with the keys they had, runs    *)
(* nothing, and changes only the listener list of the cell under the key,   *)
(* which keeps its other callbacks in their order and loses cb; when cb is  *)
(* not in the list, or the key is in neither map, nothing changes.  And a   *)
(* cell only ever invokes callbacks that are in its listener list, so the   *)
(* cell does not invoke cb after the unlisten.                              *)
C23_Unlisten ==
    [][/\ (last'.op = "unlisten") =>
              /\ DOMAIN atoms' = DOMAIN atoms
              /\ selectors' = selectors
              /\ calls' = <<>>
              /\ evals' = <<>>
              /\ last'.err = NoErr
              /\ ListenersOf(last.key)' =
                     SelectSeq(ListenersOf(last'.key),
                               LAMBDA x : x # last'.cb)
              /\ \A k \in DOMAIN atoms :
                     /\ atoms'[k].value = atoms[k].value
                     /\ (k # last'.key \/ k \in DOMAIN selectors) =>
                            atoms'[k] = atoms[k]
              /\ \A i \in SIds :
                     /\ [sel'[i] EXCEPT !.listeners = <<>>] =
                            [sel[i] EXCEPT !.listeners = <<>>]
                     /\ (last'.key \notin DOMAIN selectors
                            \/ selectors[last'.key] # i) => sel'[i] = sel[i]
              /\ (~Has(ListenersOf(last'.key), last'.cb)) =>
                     (atoms' = atoms /\ sel' = sel)
       /\ \A n \in 1..Len(calls') :
              IF calls'[n].cell = "atom"
              THEN /\ calls'[n].key \in DOMAIN atoms'
                   /\ Has(atoms'[calls'[n].key].listeners, calls'[n].cb)
              ELSE Has(sel'[calls'[n].sid].listeners, calls'[n].cb)]_vars

\* unlisten took a callback out of a list that keeps two other callbacks.
C23_Witness ==
    /\ last.op = "unlisten"
    /\ ~last.same
    /\ Len(ListenersOf(last.key)) >= 2
    /\ ~Has(ListenersOf(last.key), last.cb)

(* C24: atom(key, d2) on a key that is registered as an atom, and           *)
(* add_selector(key, f2) on a key that is registered as a selector, return  *)
(* without raising, run no compute function, invoke no listener and leave   *)
(* both maps and every cell (value, dependencies, snapshot, listeners) as   *)
(* they were.                                                               *)
C24_GetOrCreateIdempotent ==
    (\/ (last.op = "atom" /\ last.had = "atom")
     \/ (last.op = "add_selector" /\ last.had = "selector")) =>
        /\ last.err = NoErr
        /\ last.same
        /\ evals = <<>>
        /\ calls = <<>>

\* add_selector was called with another compute function on the key of a
\* selector that has a listener and holds a value the new function would
\* not compute.
C24_Witness ==
    /\ last.op = "add_selector"
    /\ last.had = "selector"
    /\ last.key \in DOMAIN selectors
    /\ sel[selectors[last.key]].fn # last.fn
    /\ sel[selectors[last.key]].listeners # <<>>
    /\ ~deep_equal(sel[selectors[last.key]].value, Expected(last.fn))

\* The evaluations of selector object sid that are in flight.
InFlight(sid) == {n \in 1..Len(tasks) : tasks[n].sid = sid}

(* C25: at most one asynchronous evaluation of a selector is in flight at  *)
(* any time: a dependency change that arrives while one is in flight starts *)
(* no second one.                                                           *)
C25_OneInFlight == \A i \in SIds : Cardinality(InFlight(i)) <= 1

(* C26: the results of the asynchronous evaluations of a selector are     *)
(* stored in the order in which the evaluations were triggered: no result   *)
(* is stored after the result of an evaluation that was triggered later.    *)
C26_AppliedInTriggerOrder ==
    [][\A i \in SIds :
          (last'.op = "resolve" /\ last'.sid = i /\ sel'[i].fn = sel[i].fn) =>
              sel'[i].applied >= sel[i].applied]_vars

(* C27: while a thread holds the update lock of a selector, no step of     *)
(* another thread or task changes the selector's value, snapshot or         *)
(* dependency set.                                                          *)
C27_WritesUnderLock ==
    [][\A i \in SIds :
          (sel[i].locked /\ ~(last'.op = "evaluate" /\ last'.sid = i)) =>
              /\ sel'[i].value = sel[i].value
              /\ sel'[i].cached = sel[i].cached
              /\ sel'[i].deps = sel[i].deps]_vars

(* C28: when a notification of a selector was skipped at the lock gate,     *)
(* then at the end of the next notification that takes the lock (and sees   *)
(* no further notification skipped meanwhile) the selector's value is       *)
(* oracle-equal to its compute function applied to the values its           *)
(* dependencies hold at that time.                                          *)
C28_SkippedWriteVisible ==
    [][\A i \in SIds :
          (/\ sel[i].missed \in {"yes", "serving"}
           /\ sel'[i].missed = "no"
           /\ sel'[i].fn = sel[i].fn) =>
              deep_equal(sel[i].value, Expected(sel[i].fn))']_vars

(* C29: when the registry is still empty after a clear() (no call has      *)
(* registered anything since), the completion of an asynchronous evaluation *)
(* that was started before the clear leaves both maps empty and invokes no  *)
(* listener.                                                                *)
C29_NothingAfterClear ==
    [][(/\ last'.op = "resolve"
        /\ cleared.phase = "clean"
        /\ atoms = EmptyMap
        /\ selectors = EmptyMap) =>
           /\ atoms' = EmptyMap
           /\ selectors' = EmptyMap
           /\ calls' = <<>>]_vars

\* The keys select_fn reads when it runs on the current values.
RECURSIVE keys_read(_, _)
keys_read(fn, vs) ==
    LET k == NextRead(fn, vs)
    IN IF k = Done THEN {}
       ELSE {k} \cup keys_read(fn, Append(vs, CurVal(k)))

(* C30: when a call in which the compute function of a registered selector *)
(* ran (for the first evaluation or for a recomputation) has returned, the  *)
(* selector's dependency set is the set of keys the function read in that   *)
(* evaluation.                                                              *)
C30_DependenciesAreLastReads ==
    \A k \in DOMAIN selectors :
        (Evals(selectors[k]) > 0 /\ last.err = NoErr /\ C2_Disjoint) =>
            sel[selectors[k]].deps = keys_read(sel[selectors[k]].fn, <<>>)

\* The snapshot of selector object sid holds the current value of every
\* dependency: its last evaluation ran on the values the dependencies have.
UpToDate(sid) ==
    \A d \in sel[sid].deps :
        /\ d \in DOMAIN atoms
        /\ d \in DOMAIN sel[sid].cached
        /\ sel[sid].cached[d] = atoms[d].value

(* C31: when the compute function of a registered selector did not read    *)
(* key k in its first evaluation but reads it in its most recent one, a     *)
(* set(k, v) that changes k runs the compute function.                      *)
C31_NewKeyTriggers ==
    \A k \in DOMAIN selectors :
        LET i == selectors[k]
        IN (/\ SetChanged
            /\ C2_Disjoint
            /\ last.key \notin sel[i].deps
            /\ last.key \in keys_read(sel[i].fn, <<>>)
            /\ Subscribed(i)
            /\ UpToDate(i)) =>
               Evals(i) >= 1

(* C32: when the compute function of a registered selector read key k in   *)
(* its first evaluation but does not read it in its most recent one, a      *)
(* set(k, v) that changes k does not run the compute function.              *)
C32_OffBranchSilent ==
    \A k \in DOMAIN selectors :
        LET i == selectors[k]
        IN (/\ SetChanged
            /\ C2_Disjoint
            /\ last.key \in sel[i].deps
            /\ last.key \notin keys_read(sel[i].fn, <<>>)
            /\ \A d \in sel[i].deps \ {last.key} :
                   /\ d \in DOMAIN atoms
                   /\ d \in DOMAIN sel[i].cached
                   /\ sel[i].cached[d] = atoms[d].value) =>
               Evals(i) = 0

\* The invocations made by selector object sid during the last step.
SelCalls(sid) ==
    {n \in 1..Len(calls) : calls[n].cell = "sel" /\ calls[n].sid = sid}

(* C33: in every step other than a listen or a bind (which call the new    *)
(* listener with the current value), a selector whose value afterwards is   *)
(* oracle-equal to its value before holds the very value it held before     *)
(* and has invoked none of its listeners: a recomputation, forced or not,   *)
(* whose result is oracle-equal to the value stores and notifies nothing.   *)
C33_SelectorGate ==
    [][\A i \in SIds :
          (/\ sel[i].fn # "free"
           /\ sel'[i].fn = sel[i].fn
           /\ last'.op \notin {"listen", "bind", "bind_two_way"}
           /\ deep_equal(sel'[i].value, sel[i].value)) =>
              /\ sel'[i].value = sel[i].value
              /\ SelCalls(i)' = {}]_vars

\* A set changed a dependency of a selector that has a listener; the
\* compute function ran, the call returned, and the listener was not
\* invoked.
C33_Witness ==
    /\ SetChanged
    /\ last.err = NoErr
    /\ \E k \in DOMAIN selectors :
           /\ Evals(selectors[k]) = 1
           /\ sel[selectors[k]].listeners # <<>>
           /\ SelCalls(selectors[k]) = {}

Executing(i) ==
    {n \in 1..Len(tasks) : tasks[n].kind = "sync" /\ tasks[n].sid = i}

(* C35: once calls of _on_dependency_change have returned or raised, the   *)
(* lock of a selector is held exactly when an evaluation of it is still     *)
(* executing and its depth counter is the number of such evaluations; with  *)
(* none executing the lock is free and the counter is 0.                    *)
C35_LockReleased ==
    \A i \in SIds :
        /\ sel[i].locked <=> Executing(i) # {}
        /\ sel[i].depth = Cardinality(Executing(i))

\* A set whose recomputation raised in the compute function, after the
\* selector had taken its lock; the lock is free again.
C35_Witness ==
    /\ last.op = "set"
    /\ last.err = "TypeError"
    /\ \E k \in DOMAIN selectors :
           /\ Evals(selectors[k]) = 1
           /\ ~sel[selectors[k]].locked
           /\ sel[selectors[k]].depth = 0

(* C36: a set whose recomputation of a selector raised in the compute      *)
(* function leaves the selector's value and its cached snapshot as they     *)
(* were before the set.                                                     *)
C36_RaiseLeavesSnapshot ==
    [][\A i \in SIds :
          (/\ last'.op = "set"
           /\ last'.err = "TypeError"
           /\ sel[i].fn \in PartialFns
           /\ sel'[i].fn = sel[i].fn
           /\ Evals(i)' >= 1)
          => (/\ sel'[i].value = sel[i].value
              /\ sel'[i].cached = sel[i].cached)]_vars

\* During the last call selector object i invoked a listener of its own
\* whose write changed an atom the selector depends on and is subscribed
\* to: the selector was notified inside its own notification.
NestedNotification(i) ==
    /\ WriterKey \in sel[i].deps
    /\ WriterKey \in DOMAIN atoms
    /\ Has(atoms[WriterKey].listeners, DepCb(i))
    /\ \E m \in 1..Len(calls) :
           /\ calls[m].cell = "sel" /\ calls[m].sid = i
           /\ calls[m].cb = Writer /\ calls[m].wrote

(* C37: when a listener of a selector writes one of the selector's         *)
(* dependencies while the selector notifies its listeners, the call ends,   *)
(* the nested notification of the selector returned at the lock gate       *)
(* (unless a listener raised before it was delivered) and the compute      *)
(* function of the selector ran exactly once in the outer set.              *)
C37_NestedWriteSkipped ==
    \A i \in SIds :
        (last.op = "set" /\ NestedNotification(i))
        => (/\ last.skips >= 1 \/ last.err # NoErr
            /\ Evals(i) = 1)

\* A set of "a" recomputed a selector of "a", whose listener wrote "a"
\* again and changed it, and the set returned normally.
C37_Witness ==
    /\ last.op = "set"
    /\ last.key = WriterKey
    /\ last.err = NoErr
    /\ ~deep_equal(last.val, WriterValue)
    /\ atoms[WriterKey].value = WriterValue
    /\ \E k \in DOMAIN selectors :
           /\ NestedNotification(selectors[k])
           /\ WriterKey \in sel[selectors[k]].deps

(* C38: when the first evaluation of an asynchronous selector resolves      *)
(* after a dependency it had read was written, and nothing of the selector *)
(* is in flight any more, the selector's value is oracle-equal to its       *)
(* compute function applied to the current dependency values.               *)
C38_WriteDuringInitKept ==
    \A k \in DOMAIN selectors :
        LET i == selectors[k]
        IN (/\ last.op = "resolve"
            /\ last.task = "init"
            /\ last.sid = i
            /\ last.err = NoErr
            /\ InFlight(i) = {}
            /\ C2_Disjoint
            /\ \E d \in sel[i].deps :
                   /\ d \in DOMAIN atoms
                   /\ d \in DOMAIN sel[i].cached
                   /\ ~deep_equal(sel[i].cached[d], atoms[d].value))
           => deep_equal(sel[i].value, Expected(sel[i].fn))

(* C39: set on a key registered as a selector raises and changes nothing:  *)
(* the selector's value and snapshot, both maps and every listener list     *)
(* stay as they were and no listener is invoked.                            *)
C39_SetOnSelectorFails ==
    [][(last'.op = "set" /\ last'.key \in DOMAIN selectors)
       => (/\ last'.err = "ValueError"
           /\ atoms' = atoms
           /\ selectors' = selectors
           /\ sel' = sel
           /\ calls' = <<>>
           /\ evals' = <<>>)]_vars

\* A set was called on the key of a selector that has a listener and holds
\* a value different from the one given.
C39_Witness ==
    /\ last.op = "set"
    /\ last.had = "selector"
    /\ last.key \in DOMAIN selectors
    /\ sel[selectors[last.key]].listeners # <<>>
    /\ ~deep_equal(last.val, sel[selectors[last.key]].value)

\* The notifications the selector objects of a registry delivered during
\* its last call: callback and value, in order.
RECURSIVE Delivered(_)
Delivered(cs) ==
    IF cs = <<>> THEN <<>>
    ELSE IF Head(cs).cell = "sel"
         THEN <<<<Head(cs).cb, Head(cs).val>>>> \o Delivered(Tail(cs))
         ELSE Delivered(Tail(cs))

(* C40: after every set, a selector with a pure synchronous compute         *)
(* function holds the same value as the selector of fasp, which runs the    *)
(* compute function on every notification, and has delivered the same       *)
(* notifications to its listeners in the same order.                        *)
C40_MemoTransparent ==
    (last.op = "set" /\ last.err = NoErr /\ fasp.err = NoErr) =>
        /\ DOMAIN selectors = DOMAIN fasp.selectors
        /\ \A k \in DOMAIN selectors :
               sel[selectors[k]].value = fasp.sel[fasp.selectors[k]].value
        /\ Delivered(calls) = Delivered(fasp.calls)

====
